---- MODULE Spec2Model ----
(***************************************************************************)
(* Model of hetio's abbreviation assignment (hetio/abbreviation.py) and    *)
(* of its metapath-to-cypher compiler (hetio/neo4j.py).                    *)
(*                                                                         *)
(* Strings are sequences of one-character strings, so that lower(),        *)
(* upper(), title(), prefixes and lengths are computed and not assumed.    *)
(***************************************************************************)
EXTENDS Naturals, Integers, Sequences, FiniteSets, Bags, TLC

VARIABLES
    pc,               \* position of the call being modelled
    kinds,            \* find_abbrevs: the argument, as the set of its elements
    kind_to_abbrev,   \* find_abbrevs / create_abbreviations: the local dict
    duplicates,       \* find_abbrevs: the local set of duplicated tokens
    metagraph,        \* create_abbreviations: [node_dict, edge_dict] (their keys)
    edge_set_to_keys, \* create_abbreviations: dict frozenset -> list of kinds
    pending,          \* create_abbreviations: groups the merge loop has not visited
    metarels,         \* neo4j: the path argument (a sequence of metaedges)
    using,            \* construct_dwpc_query: argument
    unique_nodes,     \* construct_dwpc_query: argument
    result            \* neo4j: what the call returned or raised

vars == <<pc, kinds, kind_to_abbrev, duplicates, metagraph, edge_set_to_keys,
          pending, metarels, using, unique_nodes, result>>

abbrevVars == <<kinds, kind_to_abbrev, duplicates>>
createVars == <<metagraph, edge_set_to_keys, pending>>
queryVars  == <<metarels, using, unique_nodes, result>>

----------------------------------------------------------------------------
(* Bounds *)

MaxLen == 2        \* longest enumerated kind name
MaxKinds == 3      \* most names in one enumerated find_abbrevs call
MaxEdges == 4      \* most edges in an enumerated metagraph
MaxPathLen == 2    \* longest enumerated metapath

----------------------------------------------------------------------------
(* Characters and str methods *)

\* <<lower-case letter, upper-case letter>>
CasePairs ==
    { <<"a", "A">>, <<"b", "B">>, <<"d", "D">>, <<"e", "E">>, <<"g", "G">>,
      <<"i", "I">>, <<"n", "N">>, <<"r", "R">>, <<"s", "S">>, <<"u", "U">> }

IsUpperChar(c) == \E p \in CasePairs : p[2] = c
IsLowerChar(c) == \E p \in CasePairs : p[1] = c

lower_char(c) ==
    IF IsUpperChar(c) THEN (CHOOSE p \in CasePairs : p[2] = c)[1] ELSE c

upper_char(c) ==
    IF IsLowerChar(c) THEN (CHOOSE p \in CasePairs : p[1] = c)[2] ELSE c

\* str.lower, str.upper
str_lower(s) == [i \in 1..Len(s) |-> lower_char(s[i])]
str_upper(s) == [i \in 1..Len(s) |-> upper_char(s[i])]

\* str.isupper / str.islower: at least one cased character and no cased
\* character of the other case
str_isupper(s) ==
    /\ \E i \in 1..Len(s) : IsUpperChar(s[i])
    /\ \A i \in 1..Len(s) : ~IsLowerChar(s[i])
str_islower(s) ==
    /\ \E i \in 1..Len(s) : IsLowerChar(s[i])
    /\ \A i \in 1..Len(s) : ~IsUpperChar(s[i])

Range(f) == { f[k] : k \in DOMAIN f }

IsPrefix(t, s) == Len(t) <= Len(s) /\ \A i \in 1..Len(t) : t[i] = s[i]

----------------------------------------------------------------------------
(* Inputs of find_abbrevs *)

Chars == {"a", "b", "A"}

Names == UNION { [1..n -> Chars] : n \in 1..MaxLen }

gene    == <<"g", "e", "n", "e">>
disease == <<"d", "i", "s", "e", "a", "s", "e">>
drug    == <<"d", "r", "u", "g">>
ExampleKinds == {gene, disease, drug}


----------------------------------------------------------------------------
(* abbreviation.py: get_duplicates, find_abbrevs *)

\* get_duplicates(kind_to_abbrev.values())
get_duplicates(f) ==
    { t \in Range(f) : Cardinality({ k \in DOMAIN f : f[k] = t }) > 1 }

\* line 58: {kind: kind[0].lower() for kind in kinds}
first_chars(ks) == [k \in ks |-> <<lower_char(k[1])>>]

\* line 63 without the lower(): a mutant
extend_abbrev_keep_case(kind, abbrev) == Append(abbrev, kind[Len(abbrev) + 1])
\* line 63: abbrev += kind[len(abbrev)].lower()
extend_abbrev(kind, abbrev) == Append(abbrev, lower_char(kind[Len(abbrev) + 1]))

\* lines 61-64 extending one name only: a mutant
extend_pass_first_only(f, dups) ==
    LET ext == { k \in DOMAIN f : f[k] \in dups /\ Len(f[k]) < Len(k) }
    IN  IF ext = {} THEN f
        ELSE LET k0 == CHOOSE k \in ext : TRUE
             IN  [f EXCEPT ![k0] = extend_abbrev(k0, f[k0])]
\* lines 61-64: one run of the for loop; duplicates is not recomputed inside
extend_pass(f, dups) ==
    [k \in DOMAIN f |->
        IF f[k] \in dups /\ Len(f[k]) < Len(k)
        THEN extend_abbrev(k, f[k])
        ELSE f[k]]

\* lines 60-66 as a function: the loop is deterministic, so a pass that
\* changes nothing while duplicates is non-empty repeats forever
RECURSIVE find_abbrevs_loop(_)
find_abbrevs_loop(f) ==
    LET d == get_duplicates(f)
    IN  IF d = {} THEN [returns |-> TRUE, value |-> f]
        ELSE LET g == extend_pass(f, d)
             IN  IF g = f THEN [returns |-> FALSE, value |-> f]
                 ELSE find_abbrevs_loop(g)

find_abbrevs(ks) == find_abbrevs_loop(first_chars(ks))

NoDict == <<>>
NoValue == <<>>
NoResult == [op |-> "none", raised |-> "", value |-> NoValue]

\* find_abbrevs, lines 58-59
FindInit ==
    /\ pc = "call_find_abbrevs"
    /\ kind_to_abbrev' = first_chars(kinds)
    /\ duplicates' = get_duplicates(first_chars(kinds))
    /\ pc' = "while"
    /\ UNCHANGED <<kinds, createVars, queryVars>>

\* find_abbrevs, lines 60-65: one iteration of the while loop
FindPass ==
    /\ pc = "while"
    /\ duplicates # {}
    /\ LET g == extend_pass(kind_to_abbrev, duplicates)
       IN  /\ kind_to_abbrev' = g
           /\ duplicates' = get_duplicates(g)
    /\ pc' = "while"
    /\ UNCHANGED <<kinds, createVars, queryVars>>

\* find_abbrevs, line 66
FindReturn ==
    /\ pc = "while"
    /\ duplicates = {}
    /\ pc' = "returned"
    /\ UNCHANGED <<abbrevVars, createVars, queryVars>>

NoGraph == [node_dict |-> {}, edge_dict |-> {}]

InitAbbrev ==
    /\ pc = "call_find_abbrevs"
    /\ \/ kinds = ExampleKinds
       \/ \E n \in 0..MaxKinds : \E l \in [1..n -> Names] : kinds = Range(l)
    /\ kind_to_abbrev = NoDict
    /\ duplicates = {}
    /\ metagraph = NoGraph
    /\ edge_set_to_keys = NoDict
    /\ pending = {}
    /\ metarels = <<>>
    /\ using = FALSE
    /\ unique_nodes = "False"
    /\ result = NoResult

NextAbbrev == FindInit \/ FindPass \/ FindReturn

SpecAbbrev == InitAbbrev /\ [][NextAbbrev]_vars

\* the interpreter keeps running the call until it returns
SpecAbbrevFair == SpecAbbrev /\ WF_vars(NextAbbrev)

----------------------------------------------------------------------------
(* Inputs of create_abbreviations: the keys of metagraph.node_dict and of   *)
(* metagraph.edge_dict, the latter as <<source, target, kind, direction>>   *)

NodeKindSets ==
    { {<<"b", "a">>},
      {<<"a">>, <<"A">>},
      {<<"b", "a">>, <<"b", "b">>},
      {<<"A">>, <<"b", "a">>},
      {<<"a", "b">>, <<"b">>} }

EdgeKindNames ==
    { <<"a">>, <<"b">>, <<"a", "b">>, <<"a", "a">>, <<"A", "b">> }

EdgesOver(nodes) ==
    { <<s, t, k, "forward">> : s \in nodes, t \in nodes, k \in EdgeKindNames }

----------------------------------------------------------------------------
(* abbreviation.py: create_abbreviations *)

\* line 76: frozenset(list(map(str.lower, edge[:2])))
edge_key(edge) == { str_lower(edge[1]), str_lower(edge[2]) }

\* lines 74-78: the lists of edge kinds per key, as bags (a kind is appended
\* once for every edge of the group that has it)
group_edges(edge_dict) ==
    [ key \in { edge_key(e) : e \in edge_dict } |->
        LET es == { e \in edge_dict : edge_key(e) = key }
        IN  [ k \in { e[3] : e \in es } |->
                Cardinality({ e \in es : e[3] = k }) ] ]

\* line 84 always replacing: a mutant
keep_previous_never(previous_abbrev, abbrev) == FALSE
\* line 84 with the comparison reversed: a mutant
keep_previous_if_shorter(previous_abbrev, abbrev) ==
    previous_abbrev # <<>> /\ Len(abbrev) >= Len(previous_abbrev)
\* line 84: previous_abbrev and len(abbrev) <= len(previous_abbrev)
keep_previous(previous_abbrev, abbrev) ==
    previous_abbrev # <<>> /\ Len(abbrev) <= Len(previous_abbrev)

\* lines 82-86: merge one group's tokens into kind_to_abbrev
merge_group(kta, key_to_abbrev) ==
    [ key \in DOMAIN kta \cup DOMAIN key_to_abbrev |->
        IF key \notin DOMAIN key_to_abbrev THEN kta[key]
        ELSE IF key \in DOMAIN kta /\ keep_previous(kta[key], key_to_abbrev[key])
             THEN kta[key]
             ELSE key_to_abbrev[key] ]

\* lines 71-72 without the upper(): a mutant
upper_abbrevs_identity(f) == f
\* lines 71-72: {kind: abbrev.upper() for kind, abbrev in ...}
upper_abbrevs(f) == [ k \in DOMAIN f |-> str_upper(f[k]) ]

\* create_abbreviations, lines 70-72
CreateNodes ==
    /\ pc = "call_create_abbreviations"
    /\ LET r == find_abbrevs(metagraph.node_dict)
       IN  IF r.returns
           THEN /\ kind_to_abbrev' = upper_abbrevs(r.value)
                /\ pc' = "group_edges"
           ELSE /\ kind_to_abbrev' = kind_to_abbrev
                /\ pc' = "find_abbrevs_loops"
    /\ UNCHANGED <<kinds, duplicates, createVars, queryVars>>

\* create_abbreviations, lines 74-78
CreateGroups ==
    /\ pc = "group_edges"
    /\ edge_set_to_keys' = group_edges(metagraph.edge_dict)
    /\ pending' = DOMAIN group_edges(metagraph.edge_dict)
    /\ pc' = "merge"
    /\ UNCHANGED <<abbrevVars, metagraph, queryVars>>

\* create_abbreviations, lines 80-86: one iteration of the loop over the
\* groups; the order of the groups is the insertion order of edge_dict
CreateMerge ==
    /\ pc = "merge"
    /\ \E edge_set \in pending :
         LET r == find_abbrevs(BagToSet(edge_set_to_keys[edge_set]))
         IN  IF r.returns
             THEN /\ kind_to_abbrev' = merge_group(kind_to_abbrev, r.value)
                  /\ pending' = pending \ {edge_set}
                  /\ pc' = "merge"
             ELSE /\ kind_to_abbrev' = kind_to_abbrev
                  /\ pending' = pending
                  /\ pc' = "find_abbrevs_loops"
    /\ UNCHANGED <<kinds, duplicates, metagraph, edge_set_to_keys, queryVars>>

\* create_abbreviations, line 88
CreateReturn ==
    /\ pc = "merge"
    /\ pending = {}
    /\ pc' = "returned"
    /\ UNCHANGED <<abbrevVars, createVars, queryVars>>

InitCreate ==
    /\ pc = "call_create_abbreviations"
    /\ kinds = {}
    /\ kind_to_abbrev = NoDict
    /\ duplicates = {}
    /\ \E ns \in NodeKindSets :
         \E es \in SUBSET EdgesOver(ns) :
            /\ Cardinality(es) <= MaxEdges
            /\ metagraph = [node_dict |-> ns, edge_dict |-> es]
    /\ edge_set_to_keys = NoDict
    /\ pending = {}
    /\ metarels = <<>>
    /\ using = FALSE
    /\ unique_nodes = "False"
    /\ result = NoResult

NextCreate == CreateNodes \/ CreateGroups \/ CreateMerge \/ CreateReturn

SpecCreate == InitCreate /\ [][NextCreate]_vars

----------------------------------------------------------------------------
(* abbreviation.py: validate_abbreviations, lines 9-37, applied to the      *)
(* mapping create_abbreviations returned.  metanode.abbrev and              *)
(* metaedge.kind_abbrev are the mapping's entries for the kind.  Lines      *)
(* 39-44 compare MetaEdge.get_abbrev() values, which hetio.hetnet defines.  *)

metanode_kinds(g) == g.node_dict
metaedge_kinds(g) == { e[3] : e \in g.edge_dict }

\* line 12
duplicated_kinds(g) == metanode_kinds(g) \cap metaedge_kinds(g)

\* lines 19-20
duplicated_metanode_abbrevs(g, kta) ==
    get_duplicates([ k \in DOMAIN kta \cap metanode_kinds(g) |-> kta[k] ])

\* lines 27-31: the abbreviations reported as not upper-case
lowercase_metanode_abbrevs(g, kta) ==
    { kta[n] : n \in { m \in metanode_kinds(g) : ~str_isupper(kta[m]) } }

\* lines 33-37: the abbreviations reported as not lower-case
uppercase_metaedge_abbrevs(g, kta) ==
    { kta[k] : k \in { j \in metaedge_kinds(g) : ~str_islower(kta[j]) } }

----------------------------------------------------------------------------
(* Inputs of the neo4j functions: a MetaPath, as the sequence of its         *)
(* metaedges.  A metaedge carries what get_id() returns and, as              *)
(* arranged_abbrev, the value of arrange_metaege(metaedge.get_abbrev()),     *)
(* both computed by hetio.hetnet / hetio.abbreviation code outside these     *)
(* sources.                                                                  *)

QueryNodeKinds == { <<"g">>, <<"d", " ", "g">> }
QueryEdgeKind == <<"i", " ", "n">>
Directions == {"forward", "backward", "both"}

DirectionMark(direction) ==
    CASE direction = "forward" -> <<">">>
      [] direction = "backward" -> <<"<">>
      [] OTHER -> <<>>

MetaEdges ==
    { [source |-> s, target |-> t, kind |-> QueryEdgeKind, direction |-> d,
       arranged_abbrev |->
           <<upper_char(s[1])>> \o DirectionMark(d) \o <<"i">> \o <<upper_char(t[1])>>] :
      s \in QueryNodeKinds, t \in QueryNodeKinds, d \in Directions }

\* Python values of the unique_nodes argument
PyTrue == "True"
PyFalse == "False"
UniqueNodesValues == {PyTrue, PyFalse, "nested", "expanded", "labeled", "none"}

----------------------------------------------------------------------------
(* neo4j.py: as_label, as_type, metapath_to_metarels, cypher_path,          *)
(* construct_dwpc_query, format_expanded_clause.  Text is kept as its        *)
(* pieces: a pattern is the sequence of its node and relationship elements,  *)
(* a clause is its head and the sequence of its terms.                       *)

IsCased(c) == IsUpperChar(c) \/ IsLowerChar(c)

\* str.title: a cased character is upper-cased after an uncased one (or at
\* the start) and lower-cased after a cased one
str_title(s) ==
    [i \in 1..Len(s) |->
        IF i > 1 /\ IsCased(s[i - 1]) THEN lower_char(s[i]) ELSE upper_char(s[i])]

\* str.replace(old, new) for a one-character old and a new of at most one
\* character, given as a sequence
RECURSIVE str_replace(_, _, _)
str_replace(s, old, new) ==
    IF s = <<>> THEN <<>>
    ELSE (IF Head(s) = old THEN new ELSE <<Head(s)>>) \o str_replace(Tail(s), old, new)

\* lines 81-86
as_label(metanode) == str_replace(str_title(metanode), " ", <<>>)

\* lines 92-98; rel_type and abbrev are joined by "_"
as_type(metaedge) ==
    LET rel_type == str_replace(str_upper(metaedge.kind), " ", <<"_">>)
        abbrev == str_replace(str_replace(metaedge.arranged_abbrev, "<", <<>>), ">", <<>>)
    IN  rel_type \o <<"_">> \o abbrev

\* lines 118-120
metaedge_to_metarel(metaedge) ==
    <<as_label(metaedge.source), as_label(metaedge.target), as_type(metaedge),
      metaedge.direction>>

\* line 115 in reverse order: a mutant
metapath_to_metarels_reversed(metapath) ==
    [i \in 1..Len(metapath) |-> metaedge_to_metarel(metapath[Len(metapath) + 1 - i])]
\* line 115
metapath_to_metarels(metapath) ==
    [i \in 1..Len(metapath) |-> metaedge_to_metarel(metapath[i])]

\* lines 137 and 182
dir0(direction) == IF direction = "backward" THEN "<-" ELSE "-"
\* lines 138 and 183 with the test of line 137: a mutant
dir1_backward(direction) == IF direction = "backward" THEN "->" ELSE "-"
\* lines 138 and 183
dir1(direction) == IF direction = "forward" THEN "->" ELSE "-"

\* line 136 labelling every target: a mutant
target_label_always(i, n, label) == <<label>>
\* line 136: the label annotation of node i of n steps (i counted from 1)
target_label(i, n, label) == IF i = n THEN <<label>> ELSE <<>>

PatternNode(i, label) == [el |-> "node", i |-> i, label |-> label]
PatternRel(d0, rel_type, d1) == [el |-> "rel", dir0 |-> d0, rel_type |-> rel_type, dir1 |-> d1]

\* lines 131-141, for a non-empty metarels
RECURSIVE cypher_steps(_, _)
cypher_steps(rels, i) ==
    IF i > Len(rels) THEN <<>>
    ELSE << PatternRel(dir0(rels[i][4]), rels[i][3], dir1(rels[i][4])),
            PatternNode(i, target_label(i, Len(rels), rels[i][2])) >>
         \o cypher_steps(rels, i + 1)

Returned(v) == [raised |-> "", value |-> v]
Raised(e) == [raised |-> e, value |-> NoValue]

\* lines 122-141, after the conversion of lines 127-128; metarels[0] of an
\* empty tuple raises IndexError
cypher_path(rels) ==
    IF rels = <<>> THEN Raised("IndexError")
    ELSE Returned(<<PatternNode(0, <<rels[1][1]>>)>> \o cypher_steps(rels, 1))

\* lines 175-190: two size() expressions per step
RECURSIVE degree_query(_, _)
degree_query(rels, i) ==
    IF i > Len(rels) THEN <<>>
    ELSE << [node |-> i - 1, side |-> "source", dir0 |-> dir0(rels[i][4]),
             rel_type |-> rels[i][3], dir1 |-> dir1(rels[i][4])],
            [node |-> i, side |-> "target", dir0 |-> dir0(rels[i][4]),
             rel_type |-> rels[i][3], dir1 |-> dir1(rels[i][4])] >>
         \o degree_query(rels, i + 1)

\* lines 192-203
using_query(rels, property, use) ==
    IF use
    THEN << [node |-> 0, label |-> rels[1][1], property |-> property],
            [node |-> Len(rels), label |-> rels[Len(rels)][2], property |-> property] >>
    ELSE <<>>

\* pairs of neighbours only: a mutant
RECURSIVE combinations_adjacent(_)
combinations_adjacent(nodes) ==
    IF Len(nodes) < 2 THEN <<>>
    ELSE << <<nodes[1], nodes[2]>> >> \o combinations_adjacent(Tail(nodes))
\* itertools.combinations(nodes, 2), in its order
RECURSIVE combinations(_)
combinations(nodes) ==
    IF Len(nodes) < 2 THEN <<>>
    ELSE [j \in 1..(Len(nodes) - 1) |-> <<nodes[1], nodes[j + 1]>>]
         \o combinations(Tail(nodes))

EmptyClause == [head |-> "", terms |-> <<>>]

\* lines 247-255; an iterator (as passed at line 210) is never falsy
format_expanded_clause(pairs, is_list) ==
    IF is_list /\ pairs = <<>> THEN EmptyClause
    ELSE [head |-> "AND NOT", terms |-> pairs]

\* lines 212-213
position_labels(rels) ==
    [i \in 1..(Len(rels) + 1) |->
        IF i <= Len(rels) THEN rels[i][1] ELSE rels[Len(rels)][2]]

\* lines 214-219: the pairs of one label after the other, the labels in the
\* order of their first position (labels[i] labels node i-1)
RECURSIVE labeled_pairs(_, _)
labeled_pairs(labels, i) ==
    IF i > Len(labels) THEN <<>>
    ELSE LET first == \A j \in 1..(i - 1) : labels[j] # labels[i]
             nodes == SelectSeq([j \in 1..Len(labels) |-> j - 1],
                                LAMBDA n : labels[n + 1] = labels[i])
         IN  (IF first THEN combinations(nodes) ELSE <<>>)
             \o labeled_pairs(labels, i + 1)

\* line 222 checking nothing: a mutant
assert_is_False_skipped(v) == TRUE
\* line 222: assert unique_nodes is False
assert_is_False(v) == v = PyFalse

\* lines 206-223
unique_nodes_query(rels, v) ==
    IF v = PyTrue \/ v = "nested"
    THEN Returned([head |-> "AND ALL", terms |-> <<>>])
    ELSE IF v = "expanded"
    THEN Returned(format_expanded_clause(
             combinations([j \in 1..(Len(rels) + 1) |-> j - 1]), FALSE))
    ELSE IF v = "labeled"
    THEN Returned(format_expanded_clause(labeled_pairs(position_labels(rels), 1), TRUE))
    ELSE IF assert_is_False(v) THEN Returned(EmptyClause)
    ELSE Raised("AssertionError")

\* lines 143-245, after the conversion of lines 167-168
construct_dwpc_query(rels, property, use, v) ==
    LET path == cypher_path(rels)
        unique == unique_nodes_query(rels, v)
    IN  IF path.raised # "" THEN path
        ELSE IF unique.raised # "" THEN unique
        ELSE Returned([ metapath_query |-> path.value,
                        using_query |-> using_query(rels, property, use),
                        property |-> property,
                        length |-> Len(rels),
                        unique_nodes_query |-> unique.value,
                        degree_query |-> degree_query(rels, 1) ])

\* metapath_to_metarels(metapath)
CallMetapathToMetarels ==
    /\ pc = "call_neo4j"
    /\ result' = [op |-> "metapath_to_metarels", raised |-> "",
                  value |-> metapath_to_metarels(metarels)]
    /\ pc' = "done"
    /\ UNCHANGED <<abbrevVars, createVars, metarels, using, unique_nodes>>

\* cypher_path(metapath)
CallCypherPath ==
    /\ pc = "call_neo4j"
    /\ LET r == cypher_path(metapath_to_metarels(metarels))
       IN  result' = [op |-> "cypher_path", raised |-> r.raised, value |-> r.value]
    /\ pc' = "done"
    /\ UNCHANGED <<abbrevVars, createVars, metarels, using, unique_nodes>>

\* construct_dwpc_query(metapath, using=using, unique_nodes=unique_nodes)
CallConstructDwpcQuery ==
    /\ pc = "call_neo4j"
    /\ LET r == construct_dwpc_query(metapath_to_metarels(metarels), "name",
                                     using, unique_nodes)
       IN  result' = [op |-> "construct_dwpc_query", raised |-> r.raised,
                      value |-> r.value]
    /\ pc' = "done"
    /\ UNCHANGED <<abbrevVars, createVars, metarels, using, unique_nodes>>

InitQuery ==
    /\ pc = "call_neo4j"
    /\ kinds = {}
    /\ kind_to_abbrev = NoDict
    /\ duplicates = {}
    /\ metagraph = NoGraph
    /\ edge_set_to_keys = NoDict
    /\ pending = {}
    /\ \E n \in 0..MaxPathLen : metarels \in [1..n -> MetaEdges]
    /\ using \in BOOLEAN
    /\ unique_nodes \in UniqueNodesValues
    /\ result = NoResult

NextQuery == CallMetapathToMetarels \/ CallCypherPath \/ CallConstructDwpcQuery

SpecQuery == InitQuery /\ [][NextQuery]_vars

----------------------------------------------------------------------------
(* Claims about find_abbrevs *)

Injective(f) == \A j, k \in DOMAIN f : j # k => f[j] # f[k]

C2_Terminates == <>(pc = "returned")

\* C3 as stated: {gene, disease, drug} gives gene -> g, disease -> d,
\* drug -> dr.
C3_AsStated ==
    (pc = "returned" /\ kinds = ExampleKinds) =>
        /\ kind_to_abbrev[gene] = <<"g">>
        /\ kind_to_abbrev[disease] = <<"d">>
        /\ kind_to_abbrev[drug] = <<"d", "r">>

\* C3 amended: {gene, disease, drug} gives gene -> g, disease -> di,
\* drug -> dr: both names that collide on "d" are extended.
C3_BothExtended ==
    (pc = "returned" /\ kinds = ExampleKinds) =>
        /\ kind_to_abbrev[gene] = <<"g">>
        /\ kind_to_abbrev[disease] = <<"d", "i">>
        /\ kind_to_abbrev[drug] = <<"d", "r">>

C3_Witness == pc = "returned" /\ kinds = ExampleKinds

----------------------------------------------------------------------------
(* Claims about create_abbreviations *)

\* no kind name is both a node kind and an edge kind
DisjointKinds == duplicated_kinds(metagraph) = {}

\* the edge kind names used between the node kinds of one key
GroupKinds(key) == { e[3] : e \in { d \in metagraph.edge_dict : edge_key(d) = key } }
GroupKeys == { edge_key(e) : e \in metagraph.edge_dict }

\* the token find_abbrevs gives kind k within the group of key
LocalAbbrev(key, k) == find_abbrevs(GroupKinds(key)).value[k]

UniqueWithinGroups ==
    \A key \in GroupKeys : \A j, k \in GroupKinds(key) :
        j # k => kind_to_abbrev[j] # kind_to_abbrev[k]

NodeAbbrevsUpperUnique ==
    /\ \A n \in metagraph.node_dict : str_isupper(kind_to_abbrev[n])
    /\ \A m, n \in metagraph.node_dict :
          m # n => kind_to_abbrev[m] # kind_to_abbrev[n]

EdgeAbbrevsLower ==
    \A k \in metaedge_kinds(metagraph) : str_islower(kind_to_abbrev[k])

ValidatorChecksPass ==
    /\ duplicated_kinds(metagraph) = {}
    /\ duplicated_metanode_abbrevs(metagraph, kind_to_abbrev) = {}
    /\ lowercase_metanode_abbrevs(metagraph, kind_to_abbrev) = {}
    /\ uppercase_metaedge_abbrevs(metagraph, kind_to_abbrev) = {}

GroupsDifferLowerCased ==
    \A key \in GroupKeys : \A j, k \in GroupKinds(key) :
        j # k => str_lower(j) # str_lower(k)

\* C5: after all groups are merged, any two distinct edge kind names used
\* between the same unordered pair of node kinds have different tokens in
\* the returned mapping, also when a token is longer than its own group
\* required (node and edge kind names disjoint, names of a group different
\* after lower-casing).
C5_UniqueInEveryContext ==
    (pc = "returned" /\ DisjointKinds /\ GroupsDifferLowerCased) =>
        UniqueWithinGroups

\* a group with two names, one of which got a longer token from another group
C5_Witness ==
    /\ pc = "returned"
    /\ DisjointKinds
    /\ \E key \in GroupKeys : \E j, k \in GroupKinds(key) :
          /\ j # k
          /\ Len(kind_to_abbrev[j]) > Len(LocalAbbrev(key, j))

\* the tokens the groups of the schema assign to edge kind k
GroupTokens(k) ==
    { LocalAbbrev(key, k) : key \in { y \in GroupKeys : k \in GroupKinds(y) } }

C10_Longest ==
    (pc = "returned" /\ DisjointKinds) =>
        \A k \in metaedge_kinds(metagraph) :
            /\ kind_to_abbrev[k] \in GroupTokens(k)
            /\ \A t \in GroupTokens(k) :
                  /\ Len(t) <= Len(kind_to_abbrev[k])
                  /\ Len(t) = Len(kind_to_abbrev[k]) => t = kind_to_abbrev[k]

C10_ReplacedOnlyByLonger ==
    (pc = "merge" /\ pc' = "merge") =>
        \A k \in DOMAIN kind_to_abbrev :
            kind_to_abbrev'[k] # kind_to_abbrev[k] =>
                Len(kind_to_abbrev'[k]) > Len(kind_to_abbrev[k])

\* C10: a merge step replaces an existing token only by a strictly longer
\* one, and for disjoint node and edge kind names the returned token of
\* every edge kind name is the one longest token its groups assigned to it,
\* so the returned mapping does not depend on the order of the merges.
C10_LongestWins == []C10_Longest /\ [][C10_ReplacedOnlyByLonger]_vars

\* an edge kind name whose groups assigned tokens of different lengths
C10_Witness ==
    /\ pc = "returned"
    /\ DisjointKinds
    /\ Cardinality(GroupKeys) >= 2
    /\ \E k \in metaedge_kinds(metagraph) : Cardinality(GroupTokens(k)) >= 2

----------------------------------------------------------------------------
(* Claims about the neo4j functions *)

PathLen == Len(metarels)

\* the label of position i (0..PathLen) of the path: the source label of
\* step i+1, and the target label of the last step for the last position
PositionLabel(i) ==
    IF i < PathLen THEN as_label(metarels[i + 1].source)
    ELSE as_label(metarels[PathLen].target)

AllPairs == { <<i, j>> \in (0..PathLen) \X (0..PathLen) : i < j }
SameLabelPairs == { p \in AllPairs : PositionLabel(p[1]) = PositionLabel(p[2]) }

QueryReturned == result.op = "construct_dwpc_query" /\ result.raised = ""

\* the terms of the clause are exactly the pairs of S, each once
TermsAre(clause, S) ==
    /\ Range(clause.terms) = S
    /\ Len(clause.terms) = Cardinality(S)

\* C6: for a metapath of L >= 1 steps, `expanded` emits one comparison for
\* every pair of positions i < j of 0..L, C(L+1, 2) in all; `labeled` emits
\* exactly the comparisons of the pairs with identical labels, so at most
\* C(L+1, 2) and fewer when some pair has different labels; `nested` and
\* True emit one clause without pairwise terms.
C6_ClauseCounts ==
    (QueryReturned /\ PathLen >= 1) =>
        LET clause == result.value.unique_nodes_query
            L == PathLen
        IN  /\ unique_nodes = "expanded" =>
                /\ TermsAre(clause, AllPairs)
                /\ 2 * Len(clause.terms) = (L + 1) * L
            /\ unique_nodes = "labeled" =>
                /\ TermsAre(clause, SameLabelPairs)
                /\ 2 * Len(clause.terms) <= (L + 1) * L
                /\ SameLabelPairs # AllPairs => 2 * Len(clause.terms) < (L + 1) * L
            /\ unique_nodes \in {"nested", PyTrue} =>
                clause = [head |-> "AND ALL", terms |-> <<>>]

\* a labeled query of the longest path with some but not all pairs compared
C6_Witness ==
    /\ QueryReturned
    /\ PathLen = MaxPathLen
    /\ unique_nodes = "labeled"
    /\ SameLabelPairs # AllPairs
    /\ result.value.unique_nodes_query.terms # <<>>

\* C7: for a path of L >= 1 steps cypher_path emits the node variables
\* 0..L in order with one connector between neighbours, labels the first
\* variable with the first source label, the last with the last target
\* label and no other variable, and draws step i's connector as -[]-> when
\* forward, <-[]- when backward and -[]- otherwise.
C7_Pattern ==
    (result.op = "cypher_path" /\ PathLen >= 1) =>
        LET q == result.value
            L == PathLen
        IN  /\ result.raised = ""
            /\ Len(q) = 2 * L + 1
            /\ \A i \in 0..L :
                  /\ q[2 * i + 1].el = "node"
                  /\ q[2 * i + 1].i = i
                  /\ q[2 * i + 1].label =
                        IF i = 0 THEN <<as_label(metarels[1].source)>>
                        ELSE IF i = L THEN <<as_label(metarels[L].target)>>
                        ELSE <<>>
            /\ \A i \in 1..L :
                  /\ q[2 * i].el = "rel"
                  /\ q[2 * i].rel_type = as_type(metarels[i])
                  /\ <<q[2 * i].dir0, q[2 * i].dir1>> =
                        CASE metarels[i].direction = "forward" -> <<"-", "->">>
                          [] metarels[i].direction = "backward" -> <<"<-", "-">>
                          [] OTHER -> <<"-", "-">>

\* a pattern with an intermediate variable and a backward step
C7_Witness ==
    /\ result.op = "cypher_path"
    /\ PathLen >= 2
    /\ \E i \in 1..PathLen : metarels[i].direction = "backward"
    /\ \E i \in 1..PathLen : metarels[i].direction = "forward"

\* every step's target kind is the next step's source kind
Chains ==
    \A i \in 1..(PathLen - 1) : metarels[i].target = metarels[i + 1].source

OneStepPerEdge ==
    /\ result.raised = ""
    /\ Len(result.value) = PathLen
    /\ \A i \in 1..PathLen : result.value[i] = metaedge_to_metarel(metarels[i])

RecognizedValues == {PyTrue, PyFalse, "nested", "expanded", "labeled"}

\* C8 as stated: a chaining metapath of length >= 1 is normalized to one
\* step per edge kind, in order; a metapath that does not chain raises a
\* chaining error and no query is produced from it.
C8_AsStated ==
    /\ (result.op = "metapath_to_metarels" /\ PathLen >= 1) =>
          IF Chains THEN OneStepPerEdge ELSE result.raised = "ChainingError"
    /\ (result.op = "construct_dwpc_query" /\ PathLen >= 1 /\ ~Chains) =>
          result.raised # ""

\* C8 amended: a metapath of length >= 1 is normalized to one step per edge
\* kind, in order, whether or not its steps chain; no chaining error is
\* raised, and a query is produced from a path that does not chain.
C8_NoChainingCheck ==
    /\ (result.op = "metapath_to_metarels" /\ PathLen >= 1) => OneStepPerEdge
    /\ (result.op = "construct_dwpc_query" /\ PathLen >= 1
            /\ unique_nodes \in RecognizedValues) =>
          /\ result.raised = ""
          /\ result.value.length = PathLen

\* a path whose two different steps do not chain was normalized
C8_Witness ==
    /\ result.op = "metapath_to_metarels"
    /\ PathLen >= 2
    /\ ~Chains
    /\ result.value[1] # result.value[2]

\* C9: for a path of L >= 1 steps, unique_nodes False (mode none) gives an
\* empty uniqueness clause, nested (or True), expanded and labeled give
\* their clause, and every other value raises an error and no query is
\* returned.
C9_Modes ==
    (result.op = "construct_dwpc_query" /\ PathLen >= 1) =>
        /\ unique_nodes = PyFalse =>
              QueryReturned /\ result.value.unique_nodes_query = EmptyClause
        /\ unique_nodes \in {"nested", PyTrue} =>
              QueryReturned /\ result.value.unique_nodes_query.head = "AND ALL"
        /\ unique_nodes = "expanded" =>
              QueryReturned /\ result.value.unique_nodes_query.head = "AND NOT"
        /\ unique_nodes = "labeled" =>
              /\ QueryReturned
              /\ result.value.unique_nodes_query.head =
                    (IF SameLabelPairs = {} THEN "" ELSE "AND NOT")
        /\ unique_nodes \notin RecognizedValues =>
              result.raised = "AssertionError" /\ result.value = NoValue

\* a call with an unrecognized value has raised
C9_Witness ==
    /\ result.op = "construct_dwpc_query"
    /\ PathLen >= 1
    /\ unique_nodes \notin RecognizedValues
    /\ result.raised # ""

====
